---- MODULE Spec2Model ----
(***************************************************************************)
(* Model of bcc::RSCompilerDriver (lib/Renderscript/RSCompilerDriver.cpp): *)
(* the entry points build, buildScriptGroup and buildForCompatLib and the  *)
(* pipeline compileScript they share, run by several processes, each with  *)
(* its own driver instance, against files and file locks they share.       *)
(*                                                                         *)
(* The build modelled is the one with USE_MINGW undefined (output locking  *)
(* compiled in), PROVIDE_ARM_CODEGEN defined and HAVE_ANDROID_OS undefined *)
(* (the host build).  The RSInfo written, read back and checked is that of *)
(* include/bcc/RenderScript/RSInfo.h.                                      *)
(***************************************************************************)
EXTENDS Integers, Sequences, FiniteSets, TLC

VARIABLES
    frame,        \* per process: the entry-point call in progress, IdleFrame if none
    mConfig,      \* per driver instance: RSCompilerDriver::mConfig (NullConfig or settings)
    compilerCfg,  \* per driver instance: what Compiler::config last applied to mCompiler
    objFile,      \* per output path: the object file
    irFile,       \* per output path: whether <path>.ll exists
    infoFile,     \* per sidecar path: the sidecar file
    outLock,      \* per output path: process holding FileMutex(path), 0 if none
    infoLock,     \* per sidecar path: process holding FileMutex(info path), 0 if none
    nAttempts,    \* number of entry-point calls made so far
    lastOK,       \* per output path: the last build() call that returned true
    compilerRan,  \* per driver instance: Compiler::compile has been invoked on mCompiler
    rs            \* an RSInfo being written, read back or checked; NoRs if none

vars == <<frame, mConfig, compilerCfg, objFile, irFile, infoFile,
          outLock, infoLock, nAttempts, lastOK, compilerRan, rs>>

\* ---------------------------------------------------------------- bounds
\* Entry-point calls made in one behaviour.
MaxAttempts == 2

\* The processes (each with its own driver; two, the claims about concurrent
\* attempts being about pairs), the output paths they build to and the
\* bitcode bodies they build from.
Procs == {1, 2}
Bodies == {1, 2}

\* A char pointer argument that is nullptr.
NullStr == "(null)"
\* Cache directories and resource names; a resource name is a file name
\* with or without an extension.
Dirs == {"cache"}
Stems == {"foo"}
Exts == {"bc"}
Names == [stem : Stems, ext : Exts]
NullName == [stem |-> NullStr, ext |-> ""]

\* A file path: directory, stem and extension of the file name.
\* llvm::sys::path::append(output_path, pResName).
AppendPath(dir, name) == [dir |-> dir, stem |-> name.stem, ext |-> name.ext]
\* llvm::sys::path::replace_extension(output_path, ".o").
ReplaceExtension(x, ext) == [x EXCEPT !.ext = ext]
\* Faulty variant: the resource name keeps its extension.
OutputPathKeepingExtension(dir, name) == AppendPath(dir, name)

\* The object path build() derives from its arguments.
OutputPath(dir, name) == ReplaceExtension(AppendPath(dir, name), "o")
\* The paths a caller hands to buildScriptGroup.
InputPaths == {AppendPath(d, n) : d \in Dirs, n \in Names}
\* The paths of the cache directories.
Paths == [dir : Dirs, stem : Stems, ext : Exts \cup {"o"}]
NoPath == [dir |-> NullStr, stem |-> NullStr, ext |-> ""]
\* RSInfo::GetPath: the sidecar path, the object path with a fixed suffix.
GetPath(x) == [of |-> x, suffix |-> "info"]
InfoPaths == {GetPath(x) : x \in Paths}

\* The resource name the processes of Spec contend for.
SharedNames == {[stem |-> "foo", ext |-> "bc"]}

\* A file is written in parts, one write() after the other.
Parts == <<"head", "tail">>
NChunks == Len(Parts)

\* RSScript's default optimization level (RSScript::RSScript).
kOptLvl3 == 3
OptLevels == {0, kOptLvl3}

\* A bitcode buffer: its bytes (body), the optimization level its wrapper
\* carries and whether its pragmas ask for full float precision.  body 0 is
\* "no bitcode".
Bitcodes == [body : Bodies, opt : OptLevels, fullPrec : BOOLEAN]
NoBitcode == [body |-> 0, opt |-> kOptLvl3, fullPrec |-> FALSE]
\* Bitcodes built with the default settings.
PlainBitcodes == {b \in Bitcodes : b.opt = kOptLvl3 /\ ~b.fullPrec}
\* The sources of the scripts the processes of Spec hand to
\* buildForCompatLib.
CompatSources == {b \in PlainBitcodes : b.body = 2}
\* The modules fuseKernels returns to the processes of Spec.
FusedModules == {b \in PlainBitcodes : b.body = 1}
Checksums == {"", "v1"}
\* The compile command line build() is handed.
CmdLines == {"bcc -O3"}

\* A 20-byte digest: the SHA-1 of a bitcode body, twenty zero bytes, or
\* whatever bytes an uninitialized array holds.
Sha1Of(body) == [kind |-> "sha1", of |-> body]
ZeroDigest == [kind |-> "zero", of |-> 0]
NoDigest == [kind |-> "none", of |-> 0]
StackBytes == {ZeroDigest, [kind |-> "stack", of |-> 1]}

\* getBuildFingerPrint() of the host build.
BuildFingerPrint == "HostBuild"
\* No metadata record is attached to the script.
NoFingerPrint == "(no info)"

\* CompilerConfig settings the driver retains; isNull is mConfig == nullptr.
NullConfig == [isNull |-> TRUE, opt |-> 0, fullPrec |-> FALSE]

\* ------------------------------------------------------------ file helpers
\* A file exists or not; its data is a sequence of chunks, a chunk holding
\* the id of the attempt that wrote it, 0 for a hole left by a write past
\* the end of the file.
AbsentFile == [exists |-> FALSE, data |-> <<>>]
TruncatedFile == [exists |-> TRUE, data |-> <<>>]

\* write() of chunk k through a descriptor whose offset is k-1 chunks.
WriteAt(f, k, id) ==
    LET g == f.data IN
    [exists |-> TRUE,
     data |-> IF k <= Len(g) THEN [g EXCEPT ![k] = id]
              ELSE g \o [i \in 1..(k - Len(g) - 1) |-> 0] \o <<id>>]

Complete(f, id) ==
    f.exists /\ Len(f.data) = NChunks /\ \A i \in 1..NChunks : f.data[i] = id

\* ------------------------------------------------------------ frames
IdleFrame ==
    [pc |-> "idle", id |-> 0, entry |-> "none", path |-> NoPath,
     bitcode |-> NoBitcode, checksum |-> "", opt |-> kOptLvl3,
     sourceHash |-> NoDigest, cmdLine |-> "", fingerprint |-> NoFingerPrint,
     cacheDir |-> NullStr, resName |-> NullName,
     nullArg |-> FALSE, extracted |-> FALSE, linked |-> FALSE,
     configured |-> FALSE,
     dumpIR |-> FALSE, saveInfo |-> FALSE, embedInfo |-> FALSE,
     checksumEmbedded |-> FALSE, written |-> 0,
     status |-> "none", ret |-> "none", failedAt |-> "none",
     gotOutLock |-> FALSE, openedOut |-> FALSE, openedIR |-> FALSE,
     compiled |-> FALSE, openedInfo |-> FALSE, gotInfoLock |-> FALSE,
     cacheHit |-> FALSE, changedBitcode |-> FALSE]

NoBuild == [id |-> 0, bitcode |-> NoBitcode, checksum |-> "",
            dir |-> NullStr, name |-> NullName, sourceHash |-> NoDigest,
            infoPath |-> GetPath(NoPath)]

\* What the entry point returns for the status compileScript gave.
EntryResult(entry, status) ==
    IF entry = "group" THEN "true"
    ELSE IF status = "kSuccess" THEN "true" ELSE "false"

\* A call that has returned: its arguments and locals are gone, the record
\* of what it did is what its caller looks at.
Unwound(f) ==
    [f EXCEPT !.pc = "returned", !.bitcode = NoBitcode, !.checksum = "",
              !.opt = kOptLvl3, !.dumpIR = FALSE, !.written = 0,
              !.sourceHash = NoDigest, !.cmdLine = "",
              !.fingerprint = NoFingerPrint, !.configured = FALSE]

\* The frame once compileScript has returned `status` at step `at` and the
\* entry point has returned to its caller.
Returned(f, status, at) ==
    [Unwound(f) EXCEPT !.status = status, !.failedAt = at,
                       !.ret = EntryResult(f.entry, status)]

\* The frame once the entry point has returned false without calling
\* compileScript.
Rejected(f, at) ==
    [Unwound(f) EXCEPT !.status = "none", !.failedAt = at, !.ret = "false"]

\* Faulty variant: a return path that leaves the lock held.
ReleasedNever(lock, path) == lock

\* Scope exit of a FileMutex: the lock is dropped.
Released(lock, path) == [lock EXCEPT ![path] = 0]

\* Bookkeeping: the last build() on each path that returned true.
NoteSuccess(f, status) ==
    IF f.entry = "build" /\ status = "kSuccess"
    THEN [lastOK EXCEPT ![f.path] =
             [id |-> f.id, bitcode |-> f.bitcode, checksum |-> f.checksum]]
    ELSE lastOK

\* Faulty variant: a failed runtime link is logged and the build goes on.
PrologueIgnoringLinkFailure(f, out) ==
    LET g == [f EXCEPT !.checksumEmbedded = (f.checksum # "")]
        h == [g EXCEPT !.extracted = TRUE, !.fingerprint = BuildFingerPrint]
    IN
    IF out = "extract" THEN Returned(g, "kErrInvalidSource", "extract")
    ELSE [h EXCEPT !.pc = "lock", !.linked = (out # "link")]

\* compileScript up to the output lock: build checksum metadata, info
\* extraction, runtime link.  `out` is what the collaborators answer.
Prologue(f, out) ==
    LET g == [f EXCEPT !.checksumEmbedded = (f.checksum # "")]
        \* RSInfo::ExtractFromSource(source, pSourceHash, commandline,
        \* getBuildFingerPrint()) and pScript.setInfo(info).
        h == [g EXCEPT !.extracted = TRUE, !.fingerprint = BuildFingerPrint]
    IN
    IF out = "extract" THEN Returned(g, "kErrInvalidSource", "extract")
    ELSE IF out = "link" THEN Returned(h, "kErrInvalidSource", "link")
    ELSE [h EXCEPT !.pc = "lock", !.linked = TRUE]

\* ------------------------------------------------------------ RSInfo
\* A file of an RSInfo is a sequence of bytes; integers are stored with the
\* low byte first.
U8(n) == <<n % 256>>
U16(n) == <<n % 256, (n \div 256) % 256>>
U32(n) == <<n % 256, (n \div 256) % 256, (n \div 65536) % 256,
            (n \div 16777216) % 256>>
\* The integer at offset `at` (from 0) of bytes b.
RdU8(b, at) == b[at + 1]
RdU16(b, at) == b[at + 1] + 256 * b[at + 2]
RdU32(b, at) == b[at + 1] + 256 * b[at + 2] + 65536 * b[at + 3]
                + 16777216 * b[at + 4]

\* RSINFO_MAGIC "\0rsinfo\n" and RSINFO_VERSION "003\0".
RSINFO_MAGIC == <<0, 114, 115, 105, 110, 102, 111, 10>>
RSINFO_VERSION == <<48, 48, 51, 0>>
\* The length of a SHA-1 digest.
SHA1_DIGEST_LENGTH == 20

\* The packed structs of namespace rsinfo, as the widths of their fields.
ListHeader == <<4, 4, 1>>
HeaderScalars == <<8, 4, 1, 1, 2, 4>>
\* Faulty variant: the digest held in the item, not in the string pool.
DependencyTableItemInlineHash == <<4, 20>>
DependencyTableItem == <<4, 4>>
PragmaItem == <<4, 4>>
ObjectSlotItem == <<4>>
ExportVarNameItem == <<4>>
ExportFuncNameItem == <<4>>
ExportForeachFuncItem == <<4, 4>>

RECURSIVE SizeOf(_)
\* sizeof of a packed struct.
SizeOf(fields) ==
    IF fields = <<>> THEN 0 ELSE Head(fields) + SizeOf(Tail(fields))

\* The item types of the six lists of the header, in the header's order.
ItemTypes == <<DependencyTableItem, PragmaItem, ObjectSlotItem,
               ExportVarNameItem, ExportFuncNameItem, ExportForeachFuncItem>>
NLists == Len(ItemTypes)
HeaderSize == SizeOf(HeaderScalars) + NLists * SizeOf(ListHeader)

\* No RSInfo: ReadFromFile returned NULL.
NullInfo ==
    [isThreadable |-> FALSE, hasDebugInformation |-> FALSE,
     mDependencyTable |-> <<>>, mPragmas |-> <<>>, mObjectSlots |-> <<>>,
     mExportVarNames |-> <<>>, mExportFuncNames |-> <<>>,
     mExportForeachFuncs |-> <<>>]

RECURSIVE Flatten(_)
Flatten(chunks) ==
    IF chunks = <<>> THEN <<>> ELSE Head(chunks) \o Flatten(Tail(chunks))

\* A string as it lies in the string pool.
CStr(str) == str \o <<0>>

RECURSIVE DepStrings(_)
DepStrings(t) ==
    IF t = <<>> THEN <<>>
    ELSE <<CStr(Head(t).id), CStr(Head(t).sha1)>> \o DepStrings(Tail(t))
RECURSIVE PragmaStrings(_)
PragmaStrings(t) ==
    IF t = <<>> THEN <<>>
    ELSE <<CStr(Head(t).key), CStr(Head(t).value)>> \o PragmaStrings(Tail(t))
RECURSIVE NameStrings(_)
NameStrings(t) ==
    IF t = <<>> THEN <<>> ELSE <<CStr(Head(t))>> \o NameStrings(Tail(t))
RECURSIVE ForeachStrings(_)
ForeachStrings(t) ==
    IF t = <<>> THEN <<>> ELSE <<CStr(Head(t).name)>> \o ForeachStrings(Tail(t))

RECURSIVE InternAll(_, _)
\* The entries of the pool once every string of `strs` is in it, a string
\* that is there already not being added again.
InternAll(pool, strs) ==
    IF strs = <<>> THEN pool
    ELSE InternAll(IF \E k \in DOMAIN pool : pool[k] = Head(strs)
                   THEN pool ELSE Append(pool, Head(strs)),
                   Tail(strs))

\* The entries of the string pool of an RSInfo.
PoolOf(info) ==
    InternAll(<<>>, DepStrings(info.mDependencyTable)
                    \o PragmaStrings(info.mPragmas)
                    \o NameStrings(info.mExportVarNames)
                    \o NameStrings(info.mExportFuncNames)
                    \o ForeachStrings(info.mExportForeachFuncs))

\* Faulty variant: every string is given the index of the first one.
StringIdxAlwaysFirst(pool, str) == 0

RECURSIVE getStringIdxInPool(_, _)
\* The index of a string: the offset of its entry from the pool's start.
getStringIdxInPool(pool, str) ==
    IF Head(pool) = CStr(str) THEN 0
    ELSE Len(Head(pool)) + getStringIdxInPool(Tail(pool), str)

\* The items of the six lists as they are stored.
EncodeItem(pool, k, item) ==
    CASE k = 1 -> U32(getStringIdxInPool(pool, item.id))
                  \o U32(getStringIdxInPool(pool, item.sha1))
      [] k = 2 -> U32(getStringIdxInPool(pool, item.key))
                  \o U32(getStringIdxInPool(pool, item.value))
      [] k = 3 -> U32(item)
      [] k \in {4, 5} -> U32(getStringIdxInPool(pool, item))
      [] k = 6 -> U32(getStringIdxInPool(pool, item.name)) \o U32(item.signature)

\* The six lists of an RSInfo, in the header's order.
ListsOf(info) ==
    <<info.mDependencyTable, info.mPragmas, info.mObjectSlots,
      info.mExportVarNames, info.mExportFuncNames, info.mExportForeachFuncs>>

RECURSIVE ListOffset(_, _, _)
\* RSInfo::layout: list k starts where list k-1 ends, the first one at
\* initial_offset; "list" NLists + 1 is the string pool.
ListOffset(info, k, initial_offset) ==
    IF k = 1 THEN initial_offset
    ELSE ListOffset(info, k - 1, initial_offset)
         + Len(ListsOf(info)[k - 1]) * SizeOf(ItemTypes[k - 1])

\* RSInfo::write: header, list descriptors, items of the lists, string pool.
WriteInfoBytes(info) ==
    LET pool == PoolOf(info)
        lists == ListsOf(info)
        desc(k) == U32(ListOffset(info, k, HeaderSize)) \o U32(Len(lists[k]))
                   \o U8(SizeOf(ItemTypes[k]))
        items(k) == Flatten([j \in 1..Len(lists[k]) |->
                                EncodeItem(pool, k, lists[k][j])])
    IN RSINFO_MAGIC \o RSINFO_VERSION
       \o U8(IF info.isThreadable THEN 1 ELSE 0)
       \o U8(IF info.hasDebugInformation THEN 1 ELSE 0)
       \o U16(HeaderSize)
       \o U32(Len(Flatten(pool)))
       \o Flatten([k \in 1..NLists |-> desc(k)])
       \o Flatten([k \in 1..NLists |-> items(k)])
       \o Flatten(pool)

\* The offset of field i of a packed struct.
FieldOffset(fields, i) == SizeOf(SubSeq(fields, 1, i - 1))
\* The offset of list descriptor k in the header.
DescOffset(k) == SizeOf(HeaderScalars) + (k - 1) * SizeOf(ListHeader)

RECURSIVE getStringFromPool(_, _)
\* The string at an index of the pool: the bytes up to the next NUL.
getStringFromPool(blob, idx) ==
    IF blob[idx + 1] = 0 THEN <<>>
    ELSE <<blob[idx + 1]>> \o getStringFromPool(blob, idx + 1)

\* The digest at an index of the pool: SHA1_DIGEST_LENGTH bytes.
DigestFromPool(blob, idx) == SubSeq(blob, idx + 1, idx + SHA1_DIGEST_LENGTH)

\* What ReadFromFile makes of an item of list k stored at offset `at`.
DecodeItem(b, blob, k, at) ==
    CASE k = 1 -> [id |-> getStringFromPool(blob, RdU32(b, at)),
                   sha1 |-> DigestFromPool(blob, RdU32(b, at + 4))]
      [] k = 2 -> [key |-> getStringFromPool(blob, RdU32(b, at)),
                   value |-> getStringFromPool(blob, RdU32(b, at + 4))]
      [] k = 3 -> RdU32(b, at)
      [] k \in {4, 5} -> getStringFromPool(blob, RdU32(b, at))
      [] k = 6 -> [name |-> getStringFromPool(blob, RdU32(b, at)),
                   signature |-> RdU32(b, at + 4)]

\* The string indices an item of list k at offset `at` holds, and the
\* number of bytes read from each.
ItemIndices(b, k, at) ==
    CASE k = 1 -> {<<RdU32(b, at), 1>>, <<RdU32(b, at + 4), SHA1_DIGEST_LENGTH>>}
      [] k = 2 -> {<<RdU32(b, at), 1>>, <<RdU32(b, at + 4), 1>>}
      [] k = 3 -> {}
      [] OTHER -> {<<RdU32(b, at), 1>>}

\* RSInfo::ReadFromFile: the RSInfo read from the bytes of a file, ok being
\* FALSE where it returns NULL.
ReadInfoBytes(b) ==
    LET off(k) == RdU32(b, DescOffset(k) + FieldOffset(ListHeader, 1))
        cnt(k) == RdU32(b, DescOffset(k) + FieldOffset(ListHeader, 2))
        isz(k) == RdU8(b, DescOffset(k) + FieldOffset(ListHeader, 3))
        poolSize == RdU32(b, FieldOffset(HeaderScalars, 6))
        poolAt == off(NLists) + cnt(NLists) * isz(NLists)
        blob == SubSeq(b, poolAt + 1, poolAt + poolSize)
        list(k) == [j \in 1..cnt(k) |->
                       DecodeItem(b, blob, k, off(k) + (j - 1) * isz(k))]
        failed == [ok |-> FALSE, info |-> NullInfo]
    IN IF Len(b) < HeaderSize THEN failed
       ELSE IF SubSeq(b, 1, Len(RSINFO_MAGIC)) # RSINFO_MAGIC THEN failed
       ELSE IF SubSeq(b, FieldOffset(HeaderScalars, 2) + 1,
                      FieldOffset(HeaderScalars, 3)) # RSINFO_VERSION THEN failed
       ELSE IF RdU16(b, FieldOffset(HeaderScalars, 5)) # HeaderSize THEN failed
       ELSE IF \E k \in 1..NLists : isz(k) # SizeOf(ItemTypes[k]) THEN failed
       ELSE IF \E k \in 1..NLists : off(k) + cnt(k) * isz(k) > Len(b) THEN failed
       ELSE IF poolAt + poolSize > Len(b) THEN failed
       ELSE IF poolSize > 0 /\ blob[poolSize] # 0 THEN failed
       ELSE IF \E k \in 1..NLists : \E j \in 1..cnt(k) :
                  \E ix \in ItemIndices(b, k, off(k) + (j - 1) * isz(k)) :
                      ix[1] + ix[2] > poolSize THEN failed
       ELSE [ok |-> TRUE,
             info |-> [isThreadable |-> RdU8(b, FieldOffset(HeaderScalars, 3)) # 0,
                       hasDebugInformation |->
                           RdU8(b, FieldOffset(HeaderScalars, 4)) # 0,
                       mDependencyTable |-> list(1), mPragmas |-> list(2),
                       mObjectSlots |-> list(3), mExportVarNames |-> list(4),
                       mExportFuncNames |-> list(5),
                       mExportForeachFuncs |-> list(6)]]

\* Faulty variant: the last byte of the digests is not compared.
DigestsEqualButLast(a, b) ==
    \A i \in 1..(SHA1_DIGEST_LENGTH - 1) : a[i] = b[i]

\* memcmp of two digests.
DigestsEqual(a, b) == \A i \in 1..SHA1_DIGEST_LENGTH : a[i] = b[i]

RECURSIVE CheckDependency(_, _)
\* RSInfo::CheckDependency: every entry of the table is looked up among
\* the live dependencies, name first, digest next; the first entry that is
\* missing or differs ends the check.
CheckDependency(table, live) ==
    IF table = <<>> THEN TRUE
    ELSE LET d == Head(table)
             found == {l \in live : l.id = d.id}
         IN IF found = {} THEN FALSE
            ELSE IF \E l \in found : ~DigestsEqual(l.sha1, d.sha1) THEN FALSE
            ELSE CheckDependency(Tail(table), live)

\* Strings and digests of the RSInfos written, read and checked.
InputName == <<97>>
LibBCCPath == <<98, 99, 99>>
DigestP == [i \in 1..SHA1_DIGEST_LENGTH |-> 0]
DigestQ == [i \in 1..SHA1_DIGEST_LENGTH |-> IF i = SHA1_DIGEST_LENGTH THEN 1 ELSE 0]
LibBCCSHA1 == DigestQ
DepEntries == [id : {InputName, LibBCCPath}, sha1 : {DigestP, DigestQ}]
DepTables == {<<>>} \cup {<<d>> : d \in DepEntries}
                    \cup {<<d, e>> : d \in DepEntries, e \in DepEntries}
PragmaLists == {<<>>, <<[key |-> InputName, value |-> LibBCCPath]>>,
                <<[key |-> LibBCCPath, value |-> <<>>],
                  [key |-> <<120>>, value |-> InputName]>>}
ObjectSlotLists == {<<>>, <<0, 300>>}
NameLists == {<<>>, <<LibBCCPath, InputName>>}
ForeachLists == {<<>>, <<[name |-> <<114>>, signature |-> 65537]>>}
Infos ==
    [isThreadable : BOOLEAN, hasDebugInformation : BOOLEAN,
     mDependencyTable : DepTables, mPragmas : PragmaLists,
     mObjectSlots : ObjectSlotLists, mExportVarNames : NameLists,
     mExportFuncNames : NameLists, mExportForeachFuncs : ForeachLists]

\* The live dependencies: those of the source and the built-in ones.
BuiltInDeps == {[id |-> LibBCCPath, sha1 |-> LibBCCSHA1]}
SourceDeps == {{}} \cup {{[id |-> InputName, sha1 |-> h]} : h \in {DigestP, DigestQ}}

NoRs == [phase |-> "none", info |-> NullInfo, file |-> <<>>,
         back |-> [ok |-> FALSE, info |-> NullInfo], live |-> {}, fresh |-> FALSE]

\* The drivers before their first call.
DriverInit ==
    /\ frame = [p \in Procs |-> IdleFrame]
    /\ mConfig = [p \in Procs |-> NullConfig]
    /\ compilerCfg = [p \in Procs |-> NullConfig]
    /\ objFile = [x \in Paths |-> AbsentFile]
    /\ irFile = [x \in Paths |-> FALSE]
    /\ infoFile = [y \in InfoPaths |-> AbsentFile]
    /\ outLock = [x \in Paths |-> 0]
    /\ infoLock = [y \in InfoPaths |-> 0]
    /\ nAttempts = 0
    /\ lastOK = [x \in Paths |-> NoBuild]
    /\ compilerRan = [p \in Procs |-> FALSE]

Init == DriverInit /\ rs = NoRs

\* ------------------------------------------------------------ entry points
CanStart(p) == frame[p].pc = "idle" /\ nAttempts < MaxAttempts

Begin(p, f) ==
    /\ frame' = [frame EXCEPT ![p] = f]
    /\ nAttempts' = nAttempts + 1
    /\ UNCHANGED <<mConfig, compilerCfg, objFile, irFile, infoFile, outLock, infoLock, lastOK,
                   compilerRan, rs>>

BuildOutcomes == {"ok", "source", "extract", "link"}

\* Faulty variant: the size of the bitcode is not looked at.
NullArgsIgnoringSize(dir, name, b) == dir = NullStr \/ name = NullName

\* build() refuses a null cache directory, a null resource name and a
\* bitcode that is null or has no bytes.
NullArgs(dir, name, b) == dir = NullStr \/ name = NullName \/ b = NoBitcode

\* Faulty variant: build() answers from the cache entry at the output path whenever
\* object and sidecar are complete, without looking at the bitcode.
BuildCachedByPath(p, dir, name, b, cs, cmd, dump, out) ==
    /\ CanStart(p)
    /\ ~NullArgs(dir, name, b)
    /\ out = "ok"
    /\ LET x == OutputPath(dir, name)
           prev == lastOK[x]
           f1 == [IdleFrame EXCEPT !.id = nAttempts + 1, !.entry = "build", !.path = x,
                                   !.cacheDir = dir, !.resName = name,
                                   !.sourceHash = Sha1Of(b.body), !.cmdLine = cmd,
                                   !.bitcode = b, !.checksum = cs, !.opt = b.opt,
                                   !.dumpIR = dump, !.saveInfo = TRUE,
                                   !.changedBitcode = (prev.id # 0 /\ prev.bitcode # b)]
       IN Begin(p, IF /\ prev.id # 0
                      /\ Complete(objFile[x], prev.id)
                      /\ Complete(infoFile[GetPath(x)], prev.id)
                   THEN [Unwound(f1) EXCEPT !.ret = "true"]
                   ELSE Prologue(f1, out))

\* RSCompilerDriver::build up to the output lock of compileScript.
Build(p, dir, name, b, cs, cmd, dump, out) ==
    /\ CanStart(p)
    /\ LET x == OutputPath(dir, name)
           prev == lastOK[x]
           called == [IdleFrame EXCEPT !.id = nAttempts + 1, !.entry = "build",
                                       !.nullArg = \/ dir = NullStr
                                                   \/ name = NullName
                                                   \/ b = NoBitcode]
           f0 == [called EXCEPT !.sourceHash = Sha1Of(b.body), !.path = x,
                                !.cacheDir = dir, !.resName = name]
           f1 == [f0 EXCEPT !.bitcode = b, !.checksum = cs, !.opt = b.opt,
                            !.cmdLine = cmd,
                            !.dumpIR = dump, !.saveInfo = TRUE,
                            !.cacheHit = /\ prev.id # 0
                                         /\ prev.bitcode = b
                                         /\ prev.checksum = cs
                                         /\ Complete(objFile[x], prev.id)
                                         /\ Complete(infoFile[GetPath(x)], prev.id)
                                         /\ \A q \in Procs : frame[q].pc = "idle",
                            !.changedBitcode = (prev.id # 0 /\ prev.bitcode # b)]
       IN Begin(p, IF NullArgs(dir, name, b) THEN Rejected(called, "params")
                   ELSE IF out = "source" THEN Rejected(f0, "source")
                   ELSE Prologue(f1, out))

GroupOutcomes == {"ok", "fuse", "extract", "link"}

\* RSCompilerDriver::buildScriptGroup up to the output lock of compileScript;
\* b is the module fuseKernels returns, xin is pOutputFilepath and garbage
\* is what the array bitcode_sha1, which nothing writes to, holds.
BuildScriptGroup(p, xin, b, garbage, dump, out) ==
    /\ CanStart(p)
    /\ LET f0 == [IdleFrame EXCEPT !.id = nAttempts + 1, !.entry = "group",
                                   !.path = ReplaceExtension(xin, "o")]
           f1 == [f0 EXCEPT !.bitcode = b, !.checksum = "", !.opt = kOptLvl3,
                            !.sourceHash = garbage, !.cmdLine = "",
                            !.dumpIR = dump, !.saveInfo = TRUE]
       IN Begin(p, IF out = "fuse" THEN Rejected(f0, "fuse") ELSE Prologue(f1, out))

CompatOutcomes == {"ok", "info", "extract", "link"}

\* RSCompilerDriver::buildForCompatLib up to the output lock of compileScript;
\* b is the source of pScript, whose optimization level the caller has set,
\* x is pOut.
BuildForCompatLib(p, x, b, cs, dump, out) ==
    /\ CanStart(p)
    /\ LET f0 == [IdleFrame EXCEPT !.id = nAttempts + 1, !.entry = "compat", !.path = x,
                                   !.bitcode = b, !.opt = b.opt]
           \* ExtractFromSource(source, {0}, "", "") and pScript.setInfo(info).
           f1 == [f0 EXCEPT !.checksum = cs, !.dumpIR = dump, !.saveInfo = FALSE,
                            !.sourceHash = ZeroDigest, !.cmdLine = "",
                            !.fingerprint = "", !.embedInfo = TRUE]
       IN Begin(p, IF out = "info" THEN Rejected(f0, "info") ELSE Prologue(f1, out))

\* ------------------------------------------------------------ compileScript
At(p, pc) == frame[p].pc = pc

Step(p, f) == frame' = [frame EXCEPT ![p] = f]

\* Faulty variant: the failure to lock is logged and the build goes on.
OutputLockFailureIgnored(p) ==
    /\ At(p, "lock")
    /\ Step(p, [frame[p] EXCEPT !.pc = "open"])
    /\ UNCHANGED <<mConfig, compilerCfg, objFile, irFile, infoFile,
                   outLock, infoLock, nAttempts, lastOK, compilerRan, rs>>

\* FileMutex<kWriteLock> write_output_mutex(pOutputPath) and lock(): the
\* lock file cannot be created or the lock is not granted.
OutputLockFails(p) ==
    /\ At(p, "lock")
    /\ Step(p, Returned(frame[p], "kErrInvalidSource", "lock"))
    /\ UNCHANGED <<mConfig, compilerCfg, objFile, irFile, infoFile,
                   outLock, infoLock, nAttempts, lastOK, compilerRan, rs>>

\* Faulty variant: the build without output locking (as under USE_MINGW).
AcquireOutputLockSkipped(p) ==
    /\ At(p, "lock")
    /\ outLock' = [outLock EXCEPT ![frame[p].path] = p]
    /\ Step(p, [frame[p] EXCEPT !.pc = "open", !.gotOutLock = TRUE])
    /\ UNCHANGED <<mConfig, compilerCfg, objFile, irFile, infoFile,
                   infoLock, nAttempts, lastOK, compilerRan, rs>>

\* write_output_mutex.lock() is granted: nobody else holds the lock.
AcquireOutputLock(p) ==
    /\ At(p, "lock")
    /\ outLock[frame[p].path] = 0
    /\ outLock' = [outLock EXCEPT ![frame[p].path] = p]
    /\ Step(p, [frame[p] EXCEPT !.pc = "open", !.gotOutLock = TRUE])
    /\ UNCHANGED <<mConfig, compilerCfg, objFile, irFile, infoFile,
                   infoLock, nAttempts, lastOK, compilerRan, rs>>

\* OutputFile output_file(pOutputPath, kTruncate | kBinary) has an error.
OpenOutputFails(p) ==
    /\ At(p, "open")
    /\ Step(p, Returned(frame[p], "kErrInvalidSource", "open"))
    /\ outLock' = Released(outLock, frame[p].path)
    /\ UNCHANGED <<mConfig, compilerCfg, objFile, irFile, infoFile,
                   infoLock, nAttempts, lastOK, compilerRan, rs>>

\* OutputFile output_file(pOutputPath, kTruncate | kBinary) opens the file.
OpenOutput(p) ==
    /\ At(p, "open")
    /\ objFile' = [objFile EXCEPT ![frame[p].path] = TruncatedFile]
    /\ Step(p, [frame[p] EXCEPT !.pc = "config", !.openedOut = TRUE])
    /\ UNCHANGED <<mConfig, compilerCfg, irFile, infoFile,
                   outLock, infoLock, nAttempts, lastOK, compilerRan, rs>>

\* RSCompilerDriver::setupConfig: the retained settings after the call and
\* whether the compiler needs reconfiguring.  allocOK is the answer of
\* new (std::nothrow) CompilerConfig; a fresh CompilerConfig counts as
\* changed whatever precision its constructor starts from.
SetupConfig(cfg, opt, fullPrec, allocOK) ==
    LET c1 == IF ~cfg.isNull
              THEN [cfg |-> [cfg EXCEPT !.opt = opt], changed |-> (cfg.opt # opt)]
              ELSE IF allocOK
                   THEN [cfg |-> [isNull |-> FALSE, opt |-> opt, fullPrec |-> fullPrec],
                         changed |-> TRUE]
                   ELSE [cfg |-> cfg, changed |-> FALSE]
    IN IF c1.cfg.isNull THEN c1
       ELSE [cfg |-> [c1.cfg EXCEPT !.fullPrec = fullPrec],
             changed |-> (c1.changed \/ c1.cfg.fullPrec # fullPrec)]

ConfigOutcomes == {"ok", "nomem", "cfgfail"}

\* setupConfig, Compiler::config when needed, and the IR dump file.
Configure(p, out) ==
    /\ At(p, "config")
    /\ LET f == frame[p]
           r == SetupConfig(mConfig[p], f.opt, f.bitcode.fullPrec, out # "nomem")
       IN /\ (out = "nomem") => mConfig[p].isNull
          /\ (out = "cfgfail") => r.changed
          /\ mConfig' = [mConfig EXCEPT ![p] = r.cfg]
          /\ IF r.cfg.isNull
             THEN /\ Step(p, Returned(f, "kErrInvalidSource", "alloc"))
                  /\ outLock' = Released(outLock, f.path)
                  /\ UNCHANGED <<compilerCfg, irFile>>
             ELSE IF out = "cfgfail"
             THEN /\ Step(p, Returned(f, "kErrInvalidSource", "config"))
                  /\ outLock' = Released(outLock, f.path)
                  /\ UNCHANGED <<compilerCfg, irFile>>
             ELSE /\ compilerCfg' = [compilerCfg EXCEPT ![p] =
                                        IF r.changed THEN r.cfg ELSE @]
                  /\ irFile' = [irFile EXCEPT ![f.path] = @ \/ f.dumpIR]
                  /\ Step(p, [f EXCEPT !.pc = "compile", !.written = 0,
                                       !.configured = r.changed,
                                       !.openedIR = f.dumpIR])
                  /\ UNCHANGED outLock
    /\ UNCHANGED <<objFile, infoFile, infoLock, nAttempts, lastOK, compilerRan, rs>>

\* Compiler::compile fails: whatever it wrote so far stays in the file.
CompileFails(p) ==
    /\ At(p, "compile")
    /\ frame[p].written < NChunks
    /\ Step(p, Returned([frame[p] EXCEPT !.compiled = TRUE],
                        "kErrInvalidSource", "compile"))
    /\ outLock' = Released(outLock, frame[p].path)
    /\ compilerRan' = [compilerRan EXCEPT ![p] = TRUE]
    /\ UNCHANGED <<mConfig, compilerCfg, objFile, irFile, infoFile,
                   infoLock, nAttempts, lastOK, rs>>

\* Compiler::compile writes the next part of the object to output_file.
CompileWrites(p) ==
    /\ At(p, "compile")
    /\ frame[p].written + 1 < NChunks
    /\ objFile' = [objFile EXCEPT ![frame[p].path] =
                      WriteAt(@, frame[p].written + 1, frame[p].id)]
    /\ Step(p, [frame[p] EXCEPT !.written = @ + 1, !.compiled = TRUE])
    /\ compilerRan' = [compilerRan EXCEPT ![p] = TRUE]
    /\ UNCHANGED <<mConfig, compilerCfg, irFile, infoFile,
                   outLock, infoLock, nAttempts, lastOK, rs>>

\* Faulty variant: the output lock is kept through the sidecar phase.
CompileSucceedsKeepingLock(p) ==
    /\ At(p, "compile")
    /\ frame[p].written + 1 = NChunks
    /\ objFile' = [objFile EXCEPT ![frame[p].path] =
                      WriteAt(@, NChunks, frame[p].id)]
    /\ UNCHANGED outLock
    /\ LET f == [frame[p] EXCEPT !.written = 0, !.compiled = TRUE]
       IN IF f.saveInfo
          THEN /\ Step(p, [f EXCEPT !.pc = "infoopen"])
               /\ UNCHANGED lastOK
          ELSE /\ Step(p, Returned(f, "kSuccess", "none"))
               /\ lastOK' = NoteSuccess(f, "kSuccess")
    /\ compilerRan' = [compilerRan EXCEPT ![p] = TRUE]
    /\ UNCHANGED <<mConfig, compilerCfg, irFile, infoFile, infoLock, nAttempts, rs>>

\* Compiler::compile writes the last part and returns kSuccess; the block
\* ends, which closes output_file and drops the output lock.
CompileSucceeds(p) ==
    /\ At(p, "compile")
    /\ frame[p].written + 1 = NChunks
    /\ objFile' = [objFile EXCEPT ![frame[p].path] =
                      WriteAt(@, NChunks, frame[p].id)]
    /\ outLock' = Released(outLock, frame[p].path)
    /\ LET f == [frame[p] EXCEPT !.written = 0, !.compiled = TRUE]
       IN IF f.saveInfo
          THEN /\ Step(p, [f EXCEPT !.pc = "infoopen"])
               /\ UNCHANGED lastOK
          ELSE /\ Step(p, Returned(f, "kSuccess", "none"))
               /\ lastOK' = NoteSuccess(f, "kSuccess")
    /\ compilerRan' = [compilerRan EXCEPT ![p] = TRUE]
    /\ UNCHANGED <<mConfig, compilerCfg, irFile, infoFile, infoLock, nAttempts, rs>>

\* OutputFile info_file(info_path, kTruncate) has an error.
OpenInfoFails(p) ==
    /\ At(p, "infoopen")
    /\ Step(p, Returned(frame[p], "kErrInvalidSource", "infoopen"))
    /\ UNCHANGED <<mConfig, compilerCfg, objFile, irFile, infoFile,
                   outLock, infoLock, nAttempts, lastOK, compilerRan, rs>>

\* OutputFile info_file(info_path, kTruncate) opens and truncates the sidecar.
OpenInfo(p) ==
    /\ At(p, "infoopen")
    /\ infoFile' = [infoFile EXCEPT ![GetPath(frame[p].path)] = TruncatedFile]
    /\ Step(p, [frame[p] EXCEPT !.pc = "infolock", !.openedInfo = TRUE])
    /\ UNCHANGED <<mConfig, compilerCfg, objFile, irFile,
                   outLock, infoLock, nAttempts, lastOK, compilerRan, rs>>

\* FileMutex<kWriteLock> write_info_mutex(info_path) and lock() fail.
InfoLockFails(p) ==
    /\ At(p, "infolock")
    /\ Step(p, Returned(frame[p], "kErrInvalidSource", "infolock"))
    /\ UNCHANGED <<mConfig, compilerCfg, objFile, irFile, infoFile,
                   outLock, infoLock, nAttempts, lastOK, compilerRan, rs>>

\* write_info_mutex.lock() is granted.
AcquireInfoLock(p) ==
    /\ At(p, "infolock")
    /\ infoLock[GetPath(frame[p].path)] = 0
    /\ infoLock' = [infoLock EXCEPT ![GetPath(frame[p].path)] = p]
    /\ Step(p, [frame[p] EXCEPT !.pc = "infowrite", !.written = 0,
                                !.gotInfoLock = TRUE])
    /\ UNCHANGED <<mConfig, compilerCfg, objFile, irFile, infoFile,
                   outLock, nAttempts, lastOK, compilerRan, rs>>

\* Faulty variant: a failed sidecar write takes the object file away with it.
InfoWriteFailsRemovingObject(p) ==
    /\ At(p, "infowrite")
    /\ frame[p].written < NChunks
    /\ Step(p, Returned(frame[p], "kErrInvalidSource", "infowrite"))
    /\ infoLock' = Released(infoLock, GetPath(frame[p].path))
    /\ objFile' = [objFile EXCEPT ![frame[p].path] = AbsentFile]
    /\ UNCHANGED <<mConfig, compilerCfg, irFile, infoFile,
                   outLock, nAttempts, lastOK, compilerRan, rs>>

\* info->write(info_file) fails: whatever it wrote so far stays in the file.
InfoWriteFails(p) ==
    /\ At(p, "infowrite")
    /\ frame[p].written < NChunks
    /\ Step(p, Returned(frame[p], "kErrInvalidSource", "infowrite"))
    /\ infoLock' = Released(infoLock, GetPath(frame[p].path))
    /\ UNCHANGED <<mConfig, compilerCfg, objFile, irFile, infoFile,
                   outLock, nAttempts, lastOK, compilerRan, rs>>

\* info->write(info_file) writes the next part of the record.
InfoWrites(p) ==
    /\ At(p, "infowrite")
    /\ frame[p].written + 1 < NChunks
    /\ infoFile' = [infoFile EXCEPT ![GetPath(frame[p].path)] =
                       WriteAt(@, frame[p].written + 1, frame[p].id)]
    /\ Step(p, [frame[p] EXCEPT !.written = @ + 1])
    /\ UNCHANGED <<mConfig, compilerCfg, objFile, irFile,
                   outLock, infoLock, nAttempts, lastOK, compilerRan, rs>>

\* info->write(info_file) writes the last part; compileScript returns kSuccess.
InfoWriteSucceeds(p) ==
    /\ At(p, "infowrite")
    /\ frame[p].written + 1 = NChunks
    /\ infoFile' = [infoFile EXCEPT ![GetPath(frame[p].path)] =
                       WriteAt(@, NChunks, frame[p].id)]
    /\ infoLock' = Released(infoLock, GetPath(frame[p].path))
    /\ Step(p, Returned(frame[p], "kSuccess", "none"))
    /\ lastOK' = NoteSuccess(frame[p], "kSuccess")
    /\ UNCHANGED <<mConfig, compilerCfg, objFile, irFile, outLock, nAttempts, compilerRan, rs>>

\* The caller has taken the result; the process is free for its next call.
EndCall(p) ==
    /\ At(p, "returned")
    /\ Step(p, IdleFrame)
    /\ UNCHANGED <<mConfig, compilerCfg, objFile, irFile, infoFile,
                   outLock, infoLock, nAttempts, lastOK, compilerRan, rs>>

\* ------------------------------------------------------------ specification
Next ==
    \E p \in Procs :
        \/ \E dir \in Dirs, name \in SharedNames, b \in PlainBitcodes,
              cs \in {"v1"}, cmd \in CmdLines, dump \in BOOLEAN,
              out \in BuildOutcomes :
                 Build(p, dir, name, b, cs, cmd, dump, out)
        \/ \E dir \in Dirs \cup {NullStr}, name \in SharedNames \cup {NullName},
              b \in PlainBitcodes \cup {NoBitcode}, cmd \in CmdLines :
                 /\ dir = NullStr \/ name = NullName \/ b = NoBitcode
                 /\ Build(p, dir, name, b, "v1", cmd, FALSE, "ok")
        \/ \E d \in Dirs, n \in SharedNames, b \in FusedModules,
              garbage \in StackBytes, dump \in BOOLEAN, out \in GroupOutcomes :
                 BuildScriptGroup(p, AppendPath(d, n), b, garbage, dump, out)
        \/ \E d \in Dirs, n \in SharedNames, b \in CompatSources, cs \in {"v1"},
              dump \in BOOLEAN, out \in CompatOutcomes :
                 BuildForCompatLib(p, OutputPath(d, n), b, cs, dump, out)
        \/ OutputLockFails(p)
        \/ AcquireOutputLock(p)
        \/ OpenOutputFails(p)
        \/ OpenOutput(p)
        \/ \E out \in ConfigOutcomes : Configure(p, out)
        \/ CompileFails(p)
        \/ CompileWrites(p)
        \/ CompileSucceeds(p)
        \/ OpenInfoFails(p)
        \/ OpenInfo(p)
        \/ InfoLockFails(p)
        \/ AcquireInfoLock(p)
        \/ InfoWriteFails(p)
        \/ InfoWrites(p)
        \/ InfoWriteSucceeds(p)
        \/ EndCall(p)

Spec == Init /\ [][Next]_vars

\* ------------------------------- specification of builds of two resources
\* Resource names that differ in nothing but their extension.
TwinNames == {[stem |-> "foo", ext |-> "a"], [stem |-> "foo", ext |-> "b"]}
\* The bitcode of the twin resources.
TwinBitcodes == {b \in PlainBitcodes : b.body = 1}

\* Processes building the twin resources into one cache directory.
NextNames ==
    \E p \in Procs :
        \/ \E dir \in Dirs, name \in TwinNames, b \in TwinBitcodes,
              cmd \in CmdLines, out \in BuildOutcomes :
                 Build(p, dir, name, b, "v1", cmd, FALSE, out)
        \/ OutputLockFails(p)
        \/ AcquireOutputLock(p)
        \/ OpenOutputFails(p)
        \/ OpenOutput(p)
        \/ \E out \in ConfigOutcomes : Configure(p, out)
        \/ CompileFails(p)
        \/ CompileWrites(p)
        \/ CompileSucceeds(p)
        \/ OpenInfoFails(p)
        \/ OpenInfo(p)
        \/ InfoLockFails(p)
        \/ AcquireInfoLock(p)
        \/ InfoWriteFails(p)
        \/ InfoWrites(p)
        \/ InfoWriteSucceeds(p)
        \/ EndCall(p)

SpecNames == Init /\ [][NextNames]_vars

\* --------------------------------------- specification with fair scheduling
\* A step of compileScript other than a lock request: file opens, compiler
\* configuration, the compile and the writes.
WorkStep(p) ==
    \/ OpenOutputFails(p)
    \/ OpenOutput(p)
    \/ \E out \in ConfigOutcomes : Configure(p, out)
    \/ CompileFails(p)
    \/ CompileWrites(p)
    \/ CompileSucceeds(p)
    \/ OpenInfoFails(p)
    \/ OpenInfo(p)
    \/ InfoWriteFails(p)
    \/ InfoWrites(p)
    \/ InfoWriteSucceeds(p)

\* The compile and the I/O steps end; a lock that is free again and again
\* is granted to the one asking for it.
Fairness ==
    \A p \in Procs :
        /\ WF_vars(WorkStep(p))
        /\ SF_vars(AcquireOutputLock(p))
        /\ SF_vars(AcquireInfoLock(p))

\* Fairly scheduled processes building into one cache directory.
SpecLive == Init /\ [][NextNames]_vars /\ Fairness

\* ------------------------------------------- specification of the RSInfo
driverVars == <<frame, mConfig, compilerCfg, objFile, irFile, infoFile,
                outLock, infoLock, nAttempts, lastOK, compilerRan>>

\* An RSInfo has been constructed.
InitInfo ==
    /\ DriverInit
    /\ \E info \in Infos : rs = [NoRs EXCEPT !.phase = "built", !.info = info]

\* info->write(file).
WriteInfo ==
    /\ rs.phase = "built"
    /\ rs' = [rs EXCEPT !.phase = "written", !.file = WriteInfoBytes(rs.info)]
    /\ UNCHANGED driverVars

\* RSInfo::ReadFromFile(file, deps).
ReadInfo ==
    /\ rs.phase = "written"
    /\ rs' = [rs EXCEPT !.phase = "read", !.back = ReadInfoBytes(rs.file)]
    /\ UNCHANGED driverVars

\* RSInfo::CheckDependency(info, name, deps).
CheckInfo(deps) ==
    /\ rs.phase = "built"
    /\ rs' = [rs EXCEPT !.phase = "checked", !.live = deps \cup BuiltInDeps,
                        !.fresh = CheckDependency(rs.info.mDependencyTable,
                                                  deps \cup BuiltInDeps)]
    /\ UNCHANGED driverVars

NextInfo ==
    \/ WriteInfo
    \/ ReadInfo
    \/ \E deps \in SourceDeps : CheckInfo(deps)

SpecInfo == InitInfo /\ [][NextInfo]_vars

\* ------------------------------------------------------------ properties
Ids == 1..MaxAttempts
Quiescent == \A p \in Procs : frame[p].pc \in {"idle", "returned"}

\* Between the open of the output file and the end of Compiler::compile.
InSpan(p) == frame[p].pc \in {"config", "compile"}

\* Every chunk of the file was written by one and the same attempt.
OneWriter(f) ==
    \A i, j \in DOMAIN f.data : f.data[i] = f.data[j] /\ f.data[i] # 0

\* The file holds something attempt id wrote, and is not id's whole output.
PartialBy(f, id) ==
    /\ \E i \in DOMAIN f.data : f.data[i] = id
    /\ ~Complete(f, id)

\* C1: two attempts on one output path are never both between opening the
\* object file and the end of the compile, and the object file never holds
\* parts written by different attempts.
C1_ExclusiveObjectWrites ==
    /\ \A p, q \in Procs :
          (p # q /\ InSpan(p) /\ InSpan(q)) => frame[p].path # frame[q].path
    /\ \A x \in Paths : OneWriter(objFile[x])

\* One attempt is in the middle of writing the object while another one,
\* for the same path, is at the lock.
C1_Witness ==
    \E p, q \in Procs :
        /\ p # q
        /\ frame[p].pc = "compile" /\ frame[p].written > 0
        /\ frame[q].pc = "lock"
        /\ frame[p].path = frame[q].path

\* C2: a build() that finds the cache entry of an identical earlier build
\* intact returns true without invoking Compiler::compile.
C2_CacheReuse ==
    \A p \in Procs :
        (/\ frame[p].pc = "returned" /\ frame[p].entry = "build"
         /\ frame[p].ret = "true" /\ frame[p].cacheHit)
        => ~frame[p].compiled

\* C3: a build() whose bitcode differs from that of the previous successful
\* build of the resource returns true only after Compiler::compile ran in
\* that call.
C3_ChangedBitcodeCompiles ==
    \A p \in Procs :
        (/\ frame[p].pc = "returned" /\ frame[p].entry = "build"
         /\ frame[p].ret = "true" /\ frame[p].changedBitcode)
        => frame[p].compiled

\* A build() with changed bitcode has returned true.
C3_Witness ==
    \E p \in Procs :
        /\ frame[p].pc = "returned" /\ frame[p].entry = "build"
        /\ frame[p].ret = "true" /\ frame[p].changedBitcode
        /\ Complete(objFile[frame[p].path], frame[p].id)

\* C4: with no attempt in flight, a complete sidecar lies next to the
\* complete object of the attempt that wrote the sidecar.
C4_SidecarMatchesObject ==
    Quiescent =>
        \A x \in Paths : \A id \in Ids :
            Complete(infoFile[GetPath(x)], id) => Complete(objFile[x], id)

\* C5: an entry point returns true only if compileScript returned kSuccess,
\* no step having failed.
C5_NoMaskedError ==
    \A p \in Procs :
        (frame[p].pc = "returned" /\ frame[p].ret = "true")
        => (frame[p].status = "kSuccess" /\ frame[p].failedAt = "none")

\* C6: an attempt opens an output file or runs the compiler only after it
\* got the output lock, and holds that lock while the object file is open;
\* an attempt that failed to lock has returned an error from compileScript
\* with no file opened and no compile run.
C6_LockBeforeOutput ==
    \A p \in Procs :
        LET f == frame[p] IN
        /\ (f.openedOut \/ f.openedIR \/ f.openedInfo \/ f.compiled) => f.gotOutLock
        /\ f.pc \in {"open", "config", "compile"} => outLock[f.path] = p
        /\ f.failedAt = "lock" =>
              /\ f.pc = "returned" /\ f.status = "kErrInvalidSource"
              /\ ~f.gotOutLock /\ ~f.openedOut /\ ~f.openedIR
              /\ ~f.openedInfo /\ ~f.compiled

\* An attempt was refused the lock while another was writing the object.
C6_Witness ==
    \E p, q \in Procs :
        /\ p # q
        /\ frame[p].pc = "returned" /\ frame[p].failedAt = "lock"
        /\ frame[q].pc = "compile" /\ frame[q].written > 0
        /\ frame[q].path = frame[p].path
        /\ objFile[frame[p].path].data = <<frame[q].id>>

\* C7: the sidecar file changes only in a step of the attempt that holds
\* the lock of the sidecar path.
C7_SidecarChangesUnderLock ==
    [][\A x \in Paths :
          infoFile'[GetPath(x)] # infoFile[GetPath(x)] =>
              \E p \in Procs : /\ infoLock[GetPath(x)] = p
                               /\ frame[p].path = x
                               /\ frame'[p] # frame[p]]_vars

\* C8: a process that is not inside compileScript holds no lock; a lock is
\* held only by an attempt inside the span the lock guards.
C8_LocksReleasedOnReturn ==
    \A x \in Paths : \A p \in Procs :
        /\ outLock[x] = p =>
              (frame[p].path = x /\ frame[p].pc \in {"open", "config", "compile"})
        /\ infoLock[GetPath(x)] = p =>
              (frame[p].path = x /\ frame[p].pc = "infowrite")

\* One attempt has returned from a failed compile and another from a failed
\* sidecar write, both having held their locks.
C8_Witness ==
    \E p, q \in Procs :
        /\ frame[p].pc = "returned" /\ frame[p].failedAt = "compile"
        /\ frame[p].gotOutLock
        /\ frame[q].pc = "returned" /\ frame[q].failedAt = "infowrite"
        /\ frame[q].gotInfoLock

\* C9: an attempt that failed in the compile or in the sidecar write leaves
\* no partly written object or sidecar of its own behind.
C9_NoPartialFileLeft ==
    \A p \in Procs :
        (frame[p].pc = "returned" /\ frame[p].failedAt \in {"compile", "infowrite"})
        => /\ ~PartialBy(objFile[frame[p].path], frame[p].id)
           /\ ~PartialBy(infoFile[GetPath(frame[p].path)], frame[p].id)

\* C10: no step of the sidecar phase of an attempt changes the object file,
\* and a sidecar phase that fails makes compileScript return an error.
C10_SidecarFailureKeepsObject ==
    [][\A p \in Procs :
          (frame[p].pc \in {"infoopen", "infolock", "infowrite"}
           /\ frame'[p] # frame[p])
          => /\ objFile' = objFile
             /\ (frame'[p].pc = "returned" /\ frame'[p].failedAt # "none")
                   => frame'[p].status = "kErrInvalidSource"]_vars

\* A sidecar write has failed and the object the attempt wrote is whole.
C10_Witness ==
    \E p \in Procs :
        /\ frame[p].pc = "returned" /\ frame[p].failedAt = "infowrite"
        /\ frame[p].status = "kErrInvalidSource"
        /\ Complete(objFile[frame[p].path], frame[p].id)

\* C11: buildForCompatLib never touches a sidecar, compiles whenever
\* extraction, link, output lock and output file succeeded, and the record
\* it has the compiler embed carries a zero source hash, an empty command
\* line and an empty fingerprint.
C11_CompatBuildsWithBlankProvenance ==
    \A p \in Procs :
        LET f == frame[p] IN
        f.entry = "compat" =>
            /\ ~f.openedInfo /\ ~f.gotInfoLock
            /\ f.pc \notin {"infoopen", "infolock", "infowrite"}
            /\ (f.pc = "returned" /\ f.extracted /\ f.linked
                    /\ f.gotOutLock /\ f.openedOut) => f.compiled
            /\ (f.extracted /\ f.pc # "returned") =>
                  /\ f.embedInfo
                  /\ f.sourceHash = ZeroDigest
                  /\ f.cmdLine = ""
                  /\ f.fingerprint = ""

\* C12: a compileScript call that gets to Compiler::compile has called
\* Compiler::config first if and only if the instance has not compiled
\* before or the script's settings differ from the retained ones.
C12_ConfigIffFirstOrChanged ==
    [][\A p \in Procs :
          (frame[p].pc = "config" /\ frame'[p].pc = "compile")
          => (frame'[p].configured <=>
                 \/ ~compilerRan[p]
                 \/ mConfig[p].isNull
                 \/ mConfig[p].opt # frame[p].opt
                 \/ mConfig[p].fullPrec # frame[p].bitcode.fullPrec)]_vars

\* The kind of error the step a call failed at stands for.
ErrorClass(at) ==
    CASE at = "extract" -> "InvalidSourceError"
      [] at = "link" -> "LinkError"
      [] at = "compile" -> "CompileError"
      [] at \in {"open", "infoopen", "infowrite"} -> "IOError"
      [] at \in {"lock", "infolock"} -> "LockError"
      [] OTHER -> "other"

\* C13: two compileScript calls that failed with errors of different kinds
\* returned different results.
C13_ErrorsTellCauseApart ==
    \A p, q \in Procs :
        LET f == frame[p]
            g == frame[q]
        IN (/\ f.pc = "returned" /\ g.pc = "returned"
            /\ f.status \notin {"none", "kSuccess"}
            /\ g.status \notin {"none", "kSuccess"}
            /\ ErrorClass(f.failedAt) # "other"
            /\ ErrorClass(g.failedAt) # "other"
            /\ ErrorClass(f.failedAt) # ErrorClass(g.failedAt))
           => f.status # g.status

C15_GroupHashFromFusedUnit ==
    \A p, q \in Procs :
        (/\ frame[p].entry = "group" /\ frame[q].entry = "group"
         /\ frame[p].extracted /\ frame[q].extracted
         /\ frame[p].pc # "returned" /\ frame[q].pc # "returned"
         /\ frame[p].bitcode = frame[q].bitcode)
        => frame[p].sourceHash = frame[q].sourceHash

\* The place of a step in compileScript.
PcRank(pc) ==
    CASE pc = "idle" -> 0
      [] pc = "lock" -> 1
      [] pc = "open" -> 2
      [] pc = "config" -> 3
      [] pc = "compile" -> 4
      [] pc = "infoopen" -> 5
      [] pc = "infolock" -> 6
      [] pc = "infowrite" -> 7
      [] pc = "returned" -> 8

\* C19: a call moves through compileScript forwards only, each step done
\* only after the ones before it: link after extraction, output lock after
\* link, output file after lock, configuration after the file, compile
\* after all of them, sidecar after the compile; a call whose extraction
\* or link fails returns with no lock taken, no file touched and the
\* retained configuration as it was.
C19_StepOrder ==
    [][\A p \in Procs :
          LET f == frame[p]
              g == frame'[p]
          IN g # f =>
                /\ PcRank(g.pc) >= PcRank(f.pc) \/ (f.pc = "returned" /\ g.pc = "idle")
                /\ g.linked => g.extracted
                /\ g.gotOutLock => g.linked
                /\ g.openedOut => g.gotOutLock
                /\ g.configured => g.openedOut
                /\ g.compiled => (g.extracted /\ g.linked /\ g.gotOutLock /\ g.openedOut)
                /\ g.pc = "compile" => f.pc \in {"config", "compile"}
                /\ g.openedInfo => g.compiled
                /\ (g.pc = "returned" /\ g.status = "kErrInvalidSource"
                       /\ (~g.extracted \/ ~g.linked)) =>
                      /\ f.pc = "idle"
                      /\ ~g.gotOutLock /\ ~g.openedOut /\ ~g.openedIR
                      /\ ~g.openedInfo /\ ~g.gotInfoLock /\ ~g.compiled
                      /\ UNCHANGED <<outLock, infoLock, objFile, irFile,
                                     infoFile, mConfig, compilerCfg>>]_vars

\* One call has returned from a failed runtime link while another, past
\* every step, is writing the sidecar.
C19_Witness ==
    \E p, q \in Procs :
        /\ frame[p].pc = "returned" /\ frame[p].failedAt = "link"
        /\ frame[p].extracted /\ ~frame[p].linked
        /\ frame[q].pc = "infowrite" /\ frame[q].compiled

\* C20: build() with a null cache directory, a null resource name or a
\* bitcode that is null or empty returns false, having computed no hash,
\* made no script, taken no lock, touched no file, left the compiler alone
\* and the retained configuration as it was.
C20_NullArgsRejected ==
    [][\A p \in Procs :
          LET g == frame'[p] IN
          (frame[p].pc = "idle" /\ g.entry = "build" /\ g.nullArg) =>
              /\ g.pc = "returned" /\ g.ret = "false" /\ g.status = "none"
              /\ g.sourceHash = NoDigest /\ g.path = NoPath
              /\ ~g.extracted /\ ~g.linked
              /\ ~g.gotOutLock /\ ~g.openedOut /\ ~g.openedIR
              /\ ~g.openedInfo /\ ~g.gotInfoLock /\ ~g.compiled
              /\ UNCHANGED <<mConfig, compilerCfg, objFile, irFile, infoFile,
                             outLock, infoLock, lastOK, compilerRan>>]_vars

\* A build() handed an empty bitcode has returned false while the object
\* another build wrote is whole.
C20_Witness ==
    \E p \in Procs :
        /\ frame[p].pc = "returned" /\ frame[p].entry = "build"
        /\ frame[p].nullArg /\ frame[p].ret = "false"
        /\ \E x \in Paths, id \in Ids : Complete(objFile[x], id)

\* C16: the dependency check says fresh exactly when every entry of the
\* table has its name among the live dependencies with a digest equal to
\* the stored one in each of its bytes.
C16_FreshIffAllEntriesMatch ==
    rs.phase = "checked" =>
        (rs.fresh <=>
            \A i \in DOMAIN rs.info.mDependencyTable :
                LET d == rs.info.mDependencyTable[i] IN
                /\ \E l \in rs.live : l.id = d.id
                /\ \A l \in rs.live :
                      l.id = d.id => \A k \in 1..20 : l.sha1[k] = d.sha1[k])

\* A table of two entries, both named among the live dependencies, was
\* found stale for the last byte of one digest.
C16_Witness ==
    /\ rs.phase = "checked" /\ ~rs.fresh
    /\ Len(rs.info.mDependencyTable) = 2
    /\ \A i \in 1..2 : \E l \in rs.live : l.id = rs.info.mDependencyTable[i].id
    /\ \E i \in 1..2 : \E l \in rs.live :
          /\ l.id = rs.info.mDependencyTable[i].id
          /\ l.sha1[20] # rs.info.mDependencyTable[i].sha1[20]
          /\ \A k \in 1..19 : l.sha1[k] = rs.info.mDependencyTable[i].sha1[k]

\* C17: what ReadFromFile reads from the bytes write produced is an RSInfo
\* with the flags and, item by item and in order, the six lists of the
\* RSInfo written, every string being the original one.
C17_WriteReadRoundTrip ==
    rs.phase = "read" =>
        /\ rs.back.ok
        /\ rs.back.info.isThreadable = rs.info.isThreadable
        /\ rs.back.info.hasDebugInformation = rs.info.hasDebugInformation
        /\ rs.back.info.mDependencyTable = rs.info.mDependencyTable
        /\ rs.back.info.mPragmas = rs.info.mPragmas
        /\ rs.back.info.mObjectSlots = rs.info.mObjectSlots
        /\ rs.back.info.mExportVarNames = rs.info.mExportVarNames
        /\ rs.back.info.mExportFuncNames = rs.info.mExportFuncNames
        /\ rs.back.info.mExportForeachFuncs = rs.info.mExportForeachFuncs

\* An RSInfo with every list filled, a name used twice, was read back.
C17_Witness ==
    /\ rs.phase = "read" /\ rs.back.ok
    /\ Len(rs.back.info.mDependencyTable) = 2
    /\ rs.back.info.mDependencyTable[1].id = rs.back.info.mDependencyTable[2].id
    /\ rs.back.info.mDependencyTable[1].sha1 # rs.back.info.mDependencyTable[2].sha1
    /\ Len(rs.back.info.mPragmas) = 2 /\ rs.back.info.mObjectSlots = <<0, 300>>
    /\ rs.back.info.mExportVarNames # <<>> /\ rs.back.info.mExportFuncNames # <<>>
    /\ rs.back.info.mExportForeachFuncs # <<>> /\ rs.back.info.isThreadable

\* The itemSize bytes of the six list descriptors of a file.
ItemSizesIn(b) ==
    [k \in 1..NLists |-> RdU8(b, DescOffset(k) + FieldOffset(ListHeader, 3))]

\* C18 as stated: the item sizes written are 24, 8, 4, 4, 4 and 8 and each
\* is the size of its item type, which one byte holds.
C18_ItemSizesAsStated ==
    rs.phase = "written" =>
        /\ ItemSizesIn(rs.file) = <<24, 8, 4, 4, 4, 8>>
        /\ \A k \in 1..NLists : SizeOf(ItemTypes[k]) < 256

\* C18, amended: the item sizes written are 8, 8, 4, 4, 4 and 8, the
\* dependency item being two string indices, and each is the size of its
\* item type, which one byte holds.
C18_ItemSizes ==
    rs.phase = "written" =>
        /\ ItemSizesIn(rs.file) = <<8, 8, 4, 4, 4, 8>>
        /\ \A k \in 1..NLists :
              SizeOf(ItemTypes[k]) = ItemSizesIn(rs.file)[k]
              /\ SizeOf(ItemTypes[k]) < 256

\* An RSInfo with two dependencies was written, the second one stored
\* eight bytes after the first.
C18_Witness ==
    /\ rs.phase = "written"
    /\ Len(rs.info.mDependencyTable) = 2
    /\ RdU32(rs.file, DescOffset(2)) = RdU32(rs.file, DescOffset(1)) + 16
    /\ Len(rs.file) > HeaderSize

\* C21: whenever Compiler::compile is invoked, the configuration that
\* Compiler::config last applied to the compiler is the one retained in
\* mConfig; settings that mConfig took while Compiler::config failed are
\* applied before the next compile.
C21_AppliedConfigIsRetainedConfig ==
    \A p \in Procs :
        frame[p].pc = "compile" =>
            /\ ~mConfig[p].isNull
            /\ ~compilerCfg[p].isNull
            /\ compilerCfg[p].opt = mConfig[p].opt
            /\ compilerCfg[p].fullPrec = mConfig[p].fullPrec

\* C23: two build() calls for different resource names in one cache
\* directory have different object paths, hence different sidecar paths,
\* and never both write one object file.
C23_DistinctNamesDistinctPaths ==
    \A p, q \in Procs :
        LET f == frame[p]
            g == frame[q]
        IN (/\ f.entry = "build" /\ g.entry = "build"
            /\ ~f.nullArg /\ ~g.nullArg
            /\ f.cacheDir = g.cacheDir
            /\ f.resName # g.resName)
           => /\ f.path # g.path
              /\ GetPath(f.path) # GetPath(g.path)
              /\ \A x \in Paths :
                    ~(\E i, j \in DOMAIN objFile[x].data :
                         objFile[x].data[i] = f.id /\ objFile[x].data[j] = g.id)

\* C22: no attempt holds an output lock and a sidecar lock at once, and
\* under fair scheduling every attempt inside an entry point gets to its
\* return.
C22_NoDeadlock ==
    /\ [](\A p \in Procs :
             ~(/\ \E x \in Paths : outLock[x] = p
               /\ \E y \in InfoPaths : infoLock[y] = p))
    /\ \A p \in Procs :
          (frame[p].pc \notin {"idle", "returned"}) ~> (frame[p].pc = "returned")

\* One attempt holds the sidecar lock of a path while another holds the
\* output lock of the same path and is writing the object.
C22_Witness ==
    \E p, q \in Procs :
        /\ p # q
        /\ frame[p].pc = "infowrite"
        /\ frame[p].path = frame[q].path
        /\ infoLock[GetPath(frame[p].path)] = p
        /\ outLock[frame[q].path] = q
        /\ frame[q].pc = "compile" /\ frame[q].written > 0

====
